---- MODULE Spec2Model ----
(***************************************************************************)
(* A model of scripts/font_to_sprites.py: the command-line validator, the  *)
(* filename sanitizer, the glyph rasterizer with its shrink-to-fit loop    *)
(* and the batch driver.                                                   *)
(*                                                                         *)
(* Characters are Unicode code points (naturals); a string is a sequence   *)
(* of code points.  The tables of the character database (isalnum, the     *)
(* decimal digits, white space) are those of the interpreter.              *)
(*                                                                         *)
(* The font/image library (Image.new, ImageFont.truetype, textbbox,        *)
(* draw.text, image.save) is the environment: every call either returns    *)
(* or raises an Exception, and a measurement returns any box of a small    *)
(* set.  The output directory is a directory, absent, a regular file or    *)
(* absent under a parent that cannot be written; mkdir raises for the last *)
(* two.  Writes to the standard streams are taken to succeed.              *)
(***************************************************************************)
EXTENDS Integers, Sequences, FiniteSets, TLC

----------------------------------------------------------------------------
(* Bounds of the model. *)

\* longest character string passed on the command line
MaxChars == 2
\* largest width passed on the command line
MaxWidth == 2
\* largest height passed on the command line
MaxHeight == 5
\* the sanitizer is checked on every code point 0..MaxLowCode and on Samples
MaxLowCode == 255

----------------------------------------------------------------------------
(* Strings. *)

Letters ==
  << "a", "b", "c", "d", "e", "f", "g", "h", "i", "j", "k", "l", "m",
     "n", "o", "p", "q", "r", "s", "t", "u", "v", "w", "x", "y", "z" >>

\* code point of a lower-case ASCII letter
Ord(ch) == 96 + (CHOOSE k \in 1..26 : Letters[k] = ch)

\* the string spelled by a tuple of lower-case letters, as code points
Word(w) == [k \in 1..Len(w) |-> Ord(w[k])]

\* code point of the upper-case hexadecimal digit d (0..15)
HexDigit(d) == IF d < 10 THEN 48 + d ELSE 55 + d

RECURSIVE HexDigits(_)
\* upper-case hexadecimal numeral of n, no padding
HexDigits(n) ==
  IF n < 16 THEN << HexDigit(n) >>
  ELSE HexDigits(n \div 16) \o << HexDigit(n % 16) >>

RECURSIVE ZeroPad(_, _)
\* left-pad with "0" to a minimum width; longer numerals are kept whole
ZeroPad(s, minw) == IF Len(s) >= minw THEN s ELSE ZeroPad(<< 48 >> \o s, minw)

\* format(n, "04X") keeping only the last four digits: the mutant of Format04X
Format04XTruncated(n) ==
  LET s == ZeroPad(HexDigits(n), 4) IN SubSeq(s, Len(s) - 3, Len(s))

\* format(n, "04X")
Format04X(n) == ZeroPad(HexDigits(n), 4)

----------------------------------------------------------------------------
(* sanitize_filename *)

special_chars ==
  (32 :> Word(<< "s", "p", "a", "c", "e" >>)) @@
  (33 :> Word(<< "e", "x", "c", "l", "a", "m", "a", "t", "i", "o", "n" >>)) @@
  (34 :> Word(<< "q", "u", "o", "t", "e" >>)) @@
  (35 :> Word(<< "h", "a", "s", "h" >>)) @@
  (36 :> Word(<< "d", "o", "l", "l", "a", "r" >>)) @@
  (37 :> Word(<< "p", "e", "r", "c", "e", "n", "t" >>)) @@
  (38 :> Word(<< "a", "m", "p", "e", "r", "s", "a", "n", "d" >>)) @@
  (39 :> Word(<< "a", "p", "o", "s", "t", "r", "o", "p", "h", "e" >>)) @@
  (40 :> Word(<< "l", "p", "a", "r", "e", "n" >>)) @@
  (41 :> Word(<< "r", "p", "a", "r", "e", "n" >>)) @@
  (42 :> Word(<< "a", "s", "t", "e", "r", "i", "s", "k" >>)) @@
  (43 :> Word(<< "p", "l", "u", "s" >>)) @@
  (44 :> Word(<< "c", "o", "m", "m", "a" >>)) @@
  (45 :> Word(<< "m", "i", "n", "u", "s" >>)) @@
  (46 :> Word(<< "p", "e", "r", "i", "o", "d" >>)) @@
  (47 :> Word(<< "s", "l", "a", "s", "h" >>)) @@
  (58 :> Word(<< "c", "o", "l", "o", "n" >>)) @@
  (59 :> Word(<< "s", "e", "m", "i", "c", "o", "l", "o", "n" >>)) @@
  (60 :> Word(<< "l", "e", "s", "s" >>)) @@
  (61 :> Word(<< "e", "q", "u", "a", "l", "s" >>)) @@
  (62 :> Word(<< "g", "r", "e", "a", "t", "e", "r" >>)) @@
  (63 :> Word(<< "q", "u", "e", "s", "t", "i", "o", "n" >>)) @@
  (64 :> Word(<< "a", "t" >>)) @@
  (91 :> Word(<< "l", "b", "r", "a", "c", "k", "e", "t" >>)) @@
  (92 :> Word(<< "b", "a", "c", "k", "s", "l", "a", "s", "h" >>)) @@
  (93 :> Word(<< "r", "b", "r", "a", "c", "k", "e", "t" >>)) @@
  (94 :> Word(<< "c", "a", "r", "e", "t" >>)) @@
  (95 :> Word(<< "u", "n", "d", "e", "r", "s", "c", "o", "r", "e" >>)) @@
  (96 :> Word(<< "b", "a", "c", "k", "t", "i", "c", "k" >>)) @@
  (123 :> Word(<< "l", "b", "r", "a", "c", "e" >>)) @@
  (124 :> Word(<< "p", "i", "p", "e" >>)) @@
  (125 :> Word(<< "r", "b", "r", "a", "c", "e" >>)) @@
  (126 :> Word(<< "t", "i", "l", "d", "e" >>))

\* code points above MaxLowCode on which the sanitizer is also checked:
\* a modifier letter, an Arabic-Indic digit, the euro sign, the Angstrom
\* sign, a Roman numeral, a circled digit, a hiragana letter, a CJK
\* ideograph, a lone surrogate, a private-use character, a full-width
\* letter, U+FFFF, the Linear B syllable U+10000, the G clef U+1D11E, a
\* mathematical digit, the emoji U+1F600 and U+10FFFF
Samples ==
  { 688, 1632, 8364, 8491, 8544, 9312, 12354, 20013, 56448, 62976, 65313,
    65535, 65536, 119070, 120782, 128512, 1114111 }

\* the maximal runs of code points c with chr(c).isalnum(), first and last
\* of each (the character database of the interpreter, Unicode 14.0.0)
AlnumRanges ==
  {
    << 48, 57 >>, << 65, 90 >>, << 97, 122 >>, << 170, 170 >>, << 178, 179
    >>, << 181, 181 >>, << 185, 186 >>, << 188, 190 >>, << 192, 214 >>, <<
    216, 246 >>, << 248, 705 >>, << 710, 721 >>, << 736, 740 >>, << 748, 748
    >>, << 750, 750 >>, << 880, 884 >>, << 886, 887 >>, << 890, 893 >>, <<
    895, 895 >>, << 902, 902 >>, << 904, 906 >>, << 908, 908 >>, << 910, 929
    >>, << 931, 1013 >>, << 1015, 1153 >>, << 1162, 1327 >>, << 1329, 1366
    >>, << 1369, 1369 >>, << 1376, 1416 >>, << 1488, 1514 >>, << 1519, 1522
    >>, << 1568, 1610 >>, << 1632, 1641 >>, << 1646, 1647 >>, << 1649, 1747
    >>, << 1749, 1749 >>, << 1765, 1766 >>, << 1774, 1788 >>, << 1791, 1791
    >>, << 1808, 1808 >>, << 1810, 1839 >>, << 1869, 1957 >>, << 1969, 1969
    >>, << 1984, 2026 >>, << 2036, 2037 >>, << 2042, 2042 >>, << 2048, 2069
    >>, << 2074, 2074 >>, << 2084, 2084 >>, << 2088, 2088 >>, << 2112, 2136
    >>, << 2144, 2154 >>, << 2160, 2183 >>, << 2185, 2190 >>, << 2208, 2249
    >>, << 2308, 2361 >>, << 2365, 2365 >>, << 2384, 2384 >>, << 2392, 2401
    >>, << 2406, 2415 >>, << 2417, 2432 >>, << 2437, 2444 >>, << 2447, 2448
    >>, << 2451, 2472 >>, << 2474, 2480 >>, << 2482, 2482 >>, << 2486, 2489
    >>, << 2493, 2493 >>, << 2510, 2510 >>, << 2524, 2525 >>, << 2527, 2529
    >>, << 2534, 2545 >>, << 2548, 2553 >>, << 2556, 2556 >>, << 2565, 2570
    >>, << 2575, 2576 >>, << 2579, 2600 >>, << 2602, 2608 >>, << 2610, 2611
    >>, << 2613, 2614 >>, << 2616, 2617 >>, << 2649, 2652 >>, << 2654, 2654
    >>, << 2662, 2671 >>, << 2674, 2676 >>, << 2693, 2701 >>, << 2703, 2705
    >>, << 2707, 2728 >>, << 2730, 2736 >>, << 2738, 2739 >>, << 2741, 2745
    >>, << 2749, 2749 >>, << 2768, 2768 >>, << 2784, 2785 >>, << 2790, 2799
    >>, << 2809, 2809 >>, << 2821, 2828 >>, << 2831, 2832 >>, << 2835, 2856
    >>, << 2858, 2864 >>, << 2866, 2867 >>, << 2869, 2873 >>, << 2877, 2877
    >>, << 2908, 2909 >>, << 2911, 2913 >>, << 2918, 2927 >>, << 2929, 2935
    >>, << 2947, 2947 >>, << 2949, 2954 >>, << 2958, 2960 >>, << 2962, 2965
    >>, << 2969, 2970 >>, << 2972, 2972 >>, << 2974, 2975 >>, << 2979, 2980
    >>, << 2984, 2986 >>, << 2990, 3001 >>, << 3024, 3024 >>, << 3046, 3058
    >>, << 3077, 3084 >>, << 3086, 3088 >>, << 3090, 3112 >>, << 3114, 3129
    >>, << 3133, 3133 >>, << 3160, 3162 >>, << 3165, 3165 >>, << 3168, 3169
    >>, << 3174, 3183 >>, << 3192, 3198 >>, << 3200, 3200 >>, << 3205, 3212
    >>, << 3214, 3216 >>, << 3218, 3240 >>, << 3242, 3251 >>, << 3253, 3257
    >>, << 3261, 3261 >>, << 3293, 3294 >>, << 3296, 3297 >>, << 3302, 3311
    >>, << 3313, 3314 >>, << 3332, 3340 >>, << 3342, 3344 >>, << 3346, 3386
    >>, << 3389, 3389 >>, << 3406, 3406 >>, << 3412, 3414 >>, << 3416, 3425
    >>, << 3430, 3448 >>, << 3450, 3455 >>, << 3461, 3478 >>, << 3482, 3505
    >>, << 3507, 3515 >>, << 3517, 3517 >>, << 3520, 3526 >>, << 3558, 3567
    >>, << 3585, 3632 >>, << 3634, 3635 >>, << 3648, 3654 >>, << 3664, 3673
    >>, << 3713, 3714 >>, << 3716, 3716 >>, << 3718, 3722 >>, << 3724, 3747
    >>, << 3749, 3749 >>, << 3751, 3760 >>, << 3762, 3763 >>, << 3773, 3773
    >>, << 3776, 3780 >>, << 3782, 3782 >>, << 3792, 3801 >>, << 3804, 3807
    >>, << 3840, 3840 >>, << 3872, 3891 >>, << 3904, 3911 >>, << 3913, 3948
    >>, << 3976, 3980 >>, << 4096, 4138 >>, << 4159, 4169 >>, << 4176, 4181
    >>, << 4186, 4189 >>, << 4193, 4193 >>, << 4197, 4198 >>, << 4206, 4208
    >>, << 4213, 4225 >>, << 4238, 4238 >>, << 4240, 4249 >>, << 4256, 4293
    >>, << 4295, 4295 >>, << 4301, 4301 >>, << 4304, 4346 >>, << 4348, 4680
    >>, << 4682, 4685 >>, << 4688, 4694 >>, << 4696, 4696 >>, << 4698, 4701
    >>, << 4704, 4744 >>, << 4746, 4749 >>, << 4752, 4784 >>, << 4786, 4789
    >>, << 4792, 4798 >>, << 4800, 4800 >>, << 4802, 4805 >>, << 4808, 4822
    >>, << 4824, 4880 >>, << 4882, 4885 >>, << 4888, 4954 >>, << 4969, 4988
    >>, << 4992, 5007 >>, << 5024, 5109 >>, << 5112, 5117 >>, << 5121, 5740
    >>, << 5743, 5759 >>, << 5761, 5786 >>, << 5792, 5866 >>, << 5870, 5880
    >>, << 5888, 5905 >>, << 5919, 5937 >>, << 5952, 5969 >>, << 5984, 5996
    >>, << 5998, 6000 >>, << 6016, 6067 >>, << 6103, 6103 >>, << 6108, 6108
    >>, << 6112, 6121 >>, << 6128, 6137 >>, << 6160, 6169 >>, << 6176, 6264
    >>, << 6272, 6276 >>, << 6279, 6312 >>, << 6314, 6314 >>, << 6320, 6389
    >>, << 6400, 6430 >>, << 6470, 6509 >>, << 6512, 6516 >>, << 6528, 6571
    >>, << 6576, 6601 >>, << 6608, 6618 >>, << 6656, 6678 >>, << 6688, 6740
    >>, << 6784, 6793 >>, << 6800, 6809 >>, << 6823, 6823 >>, << 6917, 6963
    >>, << 6981, 6988 >>, << 6992, 7001 >>, << 7043, 7072 >>, << 7086, 7141
    >>, << 7168, 7203 >>, << 7232, 7241 >>, << 7245, 7293 >>, << 7296, 7304
    >>, << 7312, 7354 >>, << 7357, 7359 >>, << 7401, 7404 >>, << 7406, 7411
    >>, << 7413, 7414 >>, << 7418, 7418 >>, << 7424, 7615 >>, << 7680, 7957
    >>, << 7960, 7965 >>, << 7968, 8005 >>, << 8008, 8013 >>, << 8016, 8023
    >>, << 8025, 8025 >>, << 8027, 8027 >>, << 8029, 8029 >>, << 8031, 8061
    >>, << 8064, 8116 >>, << 8118, 8124 >>, << 8126, 8126 >>, << 8130, 8132
    >>, << 8134, 8140 >>, << 8144, 8147 >>, << 8150, 8155 >>, << 8160, 8172
    >>, << 8178, 8180 >>, << 8182, 8188 >>, << 8304, 8305 >>, << 8308, 8313
    >>, << 8319, 8329 >>, << 8336, 8348 >>, << 8450, 8450 >>, << 8455, 8455
    >>, << 8458, 8467 >>, << 8469, 8469 >>, << 8473, 8477 >>, << 8484, 8484
    >>, << 8486, 8486 >>, << 8488, 8488 >>, << 8490, 8493 >>, << 8495, 8505
    >>, << 8508, 8511 >>, << 8517, 8521 >>, << 8526, 8526 >>, << 8528, 8585
    >>, << 9312, 9371 >>, << 9450, 9471 >>, << 10102, 10131 >>, << 11264,
    11492 >>, << 11499, 11502 >>, << 11506, 11507 >>, << 11517, 11517 >>, <<
    11520, 11557 >>, << 11559, 11559 >>, << 11565, 11565 >>, << 11568, 11623
    >>, << 11631, 11631 >>, << 11648, 11670 >>, << 11680, 11686 >>, <<
    11688, 11694 >>, << 11696, 11702 >>, << 11704, 11710 >>, << 11712, 11718
    >>, << 11720, 11726 >>, << 11728, 11734 >>, << 11736, 11742 >>, <<
    11823, 11823 >>, << 12293, 12295 >>, << 12321, 12329 >>, << 12337, 12341
    >>, << 12344, 12348 >>, << 12353, 12438 >>, << 12445, 12447 >>, <<
    12449, 12538 >>, << 12540, 12543 >>, << 12549, 12591 >>, << 12593, 12686
    >>, << 12690, 12693 >>, << 12704, 12735 >>, << 12784, 12799 >>, <<
    12832, 12841 >>, << 12872, 12879 >>, << 12881, 12895 >>, << 12928, 12937
    >>, << 12977, 12991 >>, << 13312, 19903 >>, << 19968, 42124 >>, <<
    42192, 42237 >>, << 42240, 42508 >>, << 42512, 42539 >>, << 42560, 42606
    >>, << 42623, 42653 >>, << 42656, 42735 >>, << 42775, 42783 >>, <<
    42786, 42888 >>, << 42891, 42954 >>, << 42960, 42961 >>, << 42963, 42963
    >>, << 42965, 42969 >>, << 42994, 43009 >>, << 43011, 43013 >>, <<
    43015, 43018 >>, << 43020, 43042 >>, << 43056, 43061 >>, << 43072, 43123
    >>, << 43138, 43187 >>, << 43216, 43225 >>, << 43250, 43255 >>, <<
    43259, 43259 >>, << 43261, 43262 >>, << 43264, 43301 >>, << 43312, 43334
    >>, << 43360, 43388 >>, << 43396, 43442 >>, << 43471, 43481 >>, <<
    43488, 43492 >>, << 43494, 43518 >>, << 43520, 43560 >>, << 43584, 43586
    >>, << 43588, 43595 >>, << 43600, 43609 >>, << 43616, 43638 >>, <<
    43642, 43642 >>, << 43646, 43695 >>, << 43697, 43697 >>, << 43701, 43702
    >>, << 43705, 43709 >>, << 43712, 43712 >>, << 43714, 43714 >>, <<
    43739, 43741 >>, << 43744, 43754 >>, << 43762, 43764 >>, << 43777, 43782
    >>, << 43785, 43790 >>, << 43793, 43798 >>, << 43808, 43814 >>, <<
    43816, 43822 >>, << 43824, 43866 >>, << 43868, 43881 >>, << 43888, 44002
    >>, << 44016, 44025 >>, << 44032, 55203 >>, << 55216, 55238 >>, <<
    55243, 55291 >>, << 63744, 64109 >>, << 64112, 64217 >>, << 64256, 64262
    >>, << 64275, 64279 >>, << 64285, 64285 >>, << 64287, 64296 >>, <<
    64298, 64310 >>, << 64312, 64316 >>, << 64318, 64318 >>, << 64320, 64321
    >>, << 64323, 64324 >>, << 64326, 64433 >>, << 64467, 64829 >>, <<
    64848, 64911 >>, << 64914, 64967 >>, << 65008, 65019 >>, << 65136, 65140
    >>, << 65142, 65276 >>, << 65296, 65305 >>, << 65313, 65338 >>, <<
    65345, 65370 >>, << 65382, 65470 >>, << 65474, 65479 >>, << 65482, 65487
    >>, << 65490, 65495 >>, << 65498, 65500 >>, << 65536, 65547 >>, <<
    65549, 65574 >>, << 65576, 65594 >>, << 65596, 65597 >>, << 65599, 65613
    >>, << 65616, 65629 >>, << 65664, 65786 >>, << 65799, 65843 >>, <<
    65856, 65912 >>, << 65930, 65931 >>, << 66176, 66204 >>, << 66208, 66256
    >>, << 66273, 66299 >>, << 66304, 66339 >>, << 66349, 66378 >>, <<
    66384, 66421 >>, << 66432, 66461 >>, << 66464, 66499 >>, << 66504, 66511
    >>, << 66513, 66517 >>, << 66560, 66717 >>, << 66720, 66729 >>, <<
    66736, 66771 >>, << 66776, 66811 >>, << 66816, 66855 >>, << 66864, 66915
    >>, << 66928, 66938 >>, << 66940, 66954 >>, << 66956, 66962 >>, <<
    66964, 66965 >>, << 66967, 66977 >>, << 66979, 66993 >>, << 66995, 67001
    >>, << 67003, 67004 >>, << 67072, 67382 >>, << 67392, 67413 >>, <<
    67424, 67431 >>, << 67456, 67461 >>, << 67463, 67504 >>, << 67506, 67514
    >>, << 67584, 67589 >>, << 67592, 67592 >>, << 67594, 67637 >>, <<
    67639, 67640 >>, << 67644, 67644 >>, << 67647, 67669 >>, << 67672, 67702
    >>, << 67705, 67742 >>, << 67751, 67759 >>, << 67808, 67826 >>, <<
    67828, 67829 >>, << 67835, 67867 >>, << 67872, 67897 >>, << 67968, 68023
    >>, << 68028, 68047 >>, << 68050, 68096 >>, << 68112, 68115 >>, <<
    68117, 68119 >>, << 68121, 68149 >>, << 68160, 68168 >>, << 68192, 68222
    >>, << 68224, 68255 >>, << 68288, 68295 >>, << 68297, 68324 >>, <<
    68331, 68335 >>, << 68352, 68405 >>, << 68416, 68437 >>, << 68440, 68466
    >>, << 68472, 68497 >>, << 68521, 68527 >>, << 68608, 68680 >>, <<
    68736, 68786 >>, << 68800, 68850 >>, << 68858, 68899 >>, << 68912, 68921
    >>, << 69216, 69246 >>, << 69248, 69289 >>, << 69296, 69297 >>, <<
    69376, 69415 >>, << 69424, 69445 >>, << 69457, 69460 >>, << 69488, 69505
    >>, << 69552, 69579 >>, << 69600, 69622 >>, << 69635, 69687 >>, <<
    69714, 69743 >>, << 69745, 69746 >>, << 69749, 69749 >>, << 69763, 69807
    >>, << 69840, 69864 >>, << 69872, 69881 >>, << 69891, 69926 >>, <<
    69942, 69951 >>, << 69956, 69956 >>, << 69959, 69959 >>, << 69968, 70002
    >>, << 70006, 70006 >>, << 70019, 70066 >>, << 70081, 70084 >>, <<
    70096, 70106 >>, << 70108, 70108 >>, << 70113, 70132 >>, << 70144, 70161
    >>, << 70163, 70187 >>, << 70272, 70278 >>, << 70280, 70280 >>, <<
    70282, 70285 >>, << 70287, 70301 >>, << 70303, 70312 >>, << 70320, 70366
    >>, << 70384, 70393 >>, << 70405, 70412 >>, << 70415, 70416 >>, <<
    70419, 70440 >>, << 70442, 70448 >>, << 70450, 70451 >>, << 70453, 70457
    >>, << 70461, 70461 >>, << 70480, 70480 >>, << 70493, 70497 >>, <<
    70656, 70708 >>, << 70727, 70730 >>, << 70736, 70745 >>, << 70751, 70753
    >>, << 70784, 70831 >>, << 70852, 70853 >>, << 70855, 70855 >>, <<
    70864, 70873 >>, << 71040, 71086 >>, << 71128, 71131 >>, << 71168, 71215
    >>, << 71236, 71236 >>, << 71248, 71257 >>, << 71296, 71338 >>, <<
    71352, 71352 >>, << 71360, 71369 >>, << 71424, 71450 >>, << 71472, 71483
    >>, << 71488, 71494 >>, << 71680, 71723 >>, << 71840, 71922 >>, <<
    71935, 71942 >>, << 71945, 71945 >>, << 71948, 71955 >>, << 71957, 71958
    >>, << 71960, 71983 >>, << 71999, 71999 >>, << 72001, 72001 >>, <<
    72016, 72025 >>, << 72096, 72103 >>, << 72106, 72144 >>, << 72161, 72161
    >>, << 72163, 72163 >>, << 72192, 72192 >>, << 72203, 72242 >>, <<
    72250, 72250 >>, << 72272, 72272 >>, << 72284, 72329 >>, << 72349, 72349
    >>, << 72368, 72440 >>, << 72704, 72712 >>, << 72714, 72750 >>, <<
    72768, 72768 >>, << 72784, 72812 >>, << 72818, 72847 >>, << 72960, 72966
    >>, << 72968, 72969 >>, << 72971, 73008 >>, << 73030, 73030 >>, <<
    73040, 73049 >>, << 73056, 73061 >>, << 73063, 73064 >>, << 73066, 73097
    >>, << 73112, 73112 >>, << 73120, 73129 >>, << 73440, 73458 >>, <<
    73648, 73648 >>, << 73664, 73684 >>, << 73728, 74649 >>, << 74752, 74862
    >>, << 74880, 75075 >>, << 77712, 77808 >>, << 77824, 78894 >>, <<
    82944, 83526 >>, << 92160, 92728 >>, << 92736, 92766 >>, << 92768, 92777
    >>, << 92784, 92862 >>, << 92864, 92873 >>, << 92880, 92909 >>, <<
    92928, 92975 >>, << 92992, 92995 >>, << 93008, 93017 >>, << 93019, 93025
    >>, << 93027, 93047 >>, << 93053, 93071 >>, << 93760, 93846 >>, <<
    93952, 94026 >>, << 94032, 94032 >>, << 94099, 94111 >>, << 94176, 94177
    >>, << 94179, 94179 >>, << 94208, 100343 >>, << 100352, 101589 >>, <<
    101632, 101640 >>, << 110576, 110579 >>, << 110581, 110587 >>, <<
    110589, 110590 >>, << 110592, 110882 >>, << 110928, 110930 >>, <<
    110948, 110951 >>, << 110960, 111355 >>, << 113664, 113770 >>, <<
    113776, 113788 >>, << 113792, 113800 >>, << 113808, 113817 >>, <<
    119520, 119539 >>, << 119648, 119672 >>, << 119808, 119892 >>, <<
    119894, 119964 >>, << 119966, 119967 >>, << 119970, 119970 >>, <<
    119973, 119974 >>, << 119977, 119980 >>, << 119982, 119993 >>, <<
    119995, 119995 >>, << 119997, 120003 >>, << 120005, 120069 >>, <<
    120071, 120074 >>, << 120077, 120084 >>, << 120086, 120092 >>, <<
    120094, 120121 >>, << 120123, 120126 >>, << 120128, 120132 >>, <<
    120134, 120134 >>, << 120138, 120144 >>, << 120146, 120485 >>, <<
    120488, 120512 >>, << 120514, 120538 >>, << 120540, 120570 >>, <<
    120572, 120596 >>, << 120598, 120628 >>, << 120630, 120654 >>, <<
    120656, 120686 >>, << 120688, 120712 >>, << 120714, 120744 >>, <<
    120746, 120770 >>, << 120772, 120779 >>, << 120782, 120831 >>, <<
    122624, 122654 >>, << 123136, 123180 >>, << 123191, 123197 >>, <<
    123200, 123209 >>, << 123214, 123214 >>, << 123536, 123565 >>, <<
    123584, 123627 >>, << 123632, 123641 >>, << 124896, 124902 >>, <<
    124904, 124907 >>, << 124909, 124910 >>, << 124912, 124926 >>, <<
    124928, 125124 >>, << 125127, 125135 >>, << 125184, 125251 >>, <<
    125259, 125259 >>, << 125264, 125273 >>, << 126065, 126123 >>, <<
    126125, 126127 >>, << 126129, 126132 >>, << 126209, 126253 >>, <<
    126255, 126269 >>, << 126464, 126467 >>, << 126469, 126495 >>, <<
    126497, 126498 >>, << 126500, 126500 >>, << 126503, 126503 >>, <<
    126505, 126514 >>, << 126516, 126519 >>, << 126521, 126521 >>, <<
    126523, 126523 >>, << 126530, 126530 >>, << 126535, 126535 >>, <<
    126537, 126537 >>, << 126539, 126539 >>, << 126541, 126543 >>, <<
    126545, 126546 >>, << 126548, 126548 >>, << 126551, 126551 >>, <<
    126553, 126553 >>, << 126555, 126555 >>, << 126557, 126557 >>, <<
    126559, 126559 >>, << 126561, 126562 >>, << 126564, 126564 >>, <<
    126567, 126570 >>, << 126572, 126578 >>, << 126580, 126583 >>, <<
    126585, 126588 >>, << 126590, 126590 >>, << 126592, 126601 >>, <<
    126603, 126619 >>, << 126625, 126627 >>, << 126629, 126633 >>, <<
    126635, 126651 >>, << 127232, 127244 >>, << 130032, 130041 >>, <<
    131072, 173791 >>, << 173824, 177976 >>, << 177984, 178205 >>, <<
    178208, 183969 >>, << 183984, 191456 >>, << 194560, 195101 >>, <<
    196608, 201546 >>
  }

\* str.isalnum() of a one-character string
isalnum(c) == \E r \in AlnumRanges : r[1] <= c /\ c <= r[2]

\* the sanitizer with the code point cut to four hexadecimal digits
sanitize_filename_cut(c) ==
  IF c \in DOMAIN special_chars THEN special_chars[c]
  ELSE IF isalnum(c) THEN << c >>
  ELSE << 85 >> \o Format04XTruncated(c)

sanitize_filename(c) ==
  IF c \in DOMAIN special_chars THEN special_chars[c]
  ELSE IF isalnum(c) THEN << c >>
  ELSE << 85 >> \o Format04X(c)

----------------------------------------------------------------------------
(* Command-line numerals: int(sys.argv[4]), int(sys.argv[5]). *)

\* the code points of the digit zero of every decimal number system; the
\* digits 1 to 9 of each follow it
DecimalZeros ==
  {
    48, 1632, 1776, 1984, 2406, 2534, 2662, 2790, 2918, 3046, 3174, 3302,
    3430, 3558, 3664, 3792, 3872, 4160, 4240, 6112, 6160, 6470, 6608, 6784,
    6800, 6992, 7088, 7232, 7248, 42528, 43216, 43264, 43472, 43504, 43600,
    44016, 65296, 66720, 68912, 69734, 69872, 69942, 70096, 70384, 70736,
    70864, 71248, 71360, 71472, 71904, 72016, 72784, 73040, 73120, 92768,
    92864, 93008, 120782, 120792, 120802, 120812, 120822, 123200, 123632,
    125264, 130032
  }

\* the white space int() strips from both ends of a string
IntSpaces ==
  {
    9, 10, 11, 12, 13, 32, 133, 160, 5760, 8192, 8193, 8194, 8195, 8196,
    8197, 8198, 8199, 8200, 8201, 8202, 8232, 8233, 8239, 8287, 12288
  }

IsDigit(c) == \E z \in DecimalZeros : z <= c /\ c <= z + 9

DigitVal(c) == c - (CHOOSE z \in DecimalZeros : z <= c /\ c <= z + 9)

RECURSIVE LStrip(_)
LStrip(s) == IF Len(s) > 0 /\ s[1] \in IntSpaces THEN LStrip(Tail(s)) ELSE s

RECURSIVE RStrip(_)
RStrip(s) ==
  IF Len(s) > 0 /\ s[Len(s)] \in IntSpaces THEN RStrip(SubSeq(s, 1, Len(s) - 1))
  ELSE s

\* the numeral with the surrounding white space removed
Stripped(s) == RStrip(LStrip(s))

\* the numeral with white space and sign removed: digits and underscores
Unsigned(s) ==
  IF Len(Stripped(s)) > 0 /\ Stripped(s)[1] \in { 43, 45 } THEN Tail(Stripped(s))
  ELSE Stripped(s)

\* the digits of the numeral, underscores dropped
DigitsOf(s) == SelectSeq(Unsigned(s), IsDigit)

\* whether int(s) returns; otherwise it raises ValueError.  After optional
\* white space and a sign come decimal digits of any script, single
\* underscores allowed between two digits, at most 4300 digits in all
\* (the interpreter's default limit for str -> int)
IsIntLiteral(s) ==
  LET u == Unsigned(s)
  IN /\ Len(u) > 0
     /\ \A k \in 1..Len(u) :
          \/ IsDigit(u[k])
          \/ /\ u[k] = 95
             /\ 1 < k /\ k < Len(u)
             /\ IsDigit(u[k - 1]) /\ IsDigit(u[k + 1])
     /\ Len(DigitsOf(s)) <= 4300

RECURSIVE DecVal(_)
DecVal(ds) ==
  IF Len(ds) = 0 THEN 0
  ELSE 10 * DecVal(SubSeq(ds, 1, Len(ds) - 1)) + DigitVal(ds[Len(ds)])

\* int(s), for s with IsIntLiteral(s); the numerals tried stay far below
\* the checker's integer range, which Python's integers do not have
IntOf(s) ==
  IF Stripped(s)[1] = 45 THEN 0 - DecVal(DigitsOf(s)) ELSE DecVal(DigitsOf(s))

RECURSIVE Numeral(_)
\* the decimal numeral of a natural, in ASCII digits
Numeral(n) ==
  IF n < 10 THEN << 48 + n >>
  ELSE Numeral(n \div 10) \o << 48 + (n % 10) >>

\* the width/height arguments tried: "x", "1.5", "1_", "_1", "1__0" and
\* "+ 1", which int() refuses; "-1", "0" and " -0_1"; the plain numerals of
\* 1..max; and 1 written as tab, "+0_", an Arabic-Indic one, NBSP
DimArgs(max) ==
  { << 120 >>, << 49, 46, 53 >>, << 49, 95 >>, << 95, 49 >>,
    << 49, 95, 95, 48 >>, << 43, 32, 49 >>,
    << 45, 49 >>, << 48 >>, << 32, 45, 48, 95, 49 >>,
    << 9, 43, 48, 95, 1633, 160 >> }
    \cup { Numeral(n) : n \in 1..max }

----------------------------------------------------------------------------
(* The request and its environment. *)

\* len(sys.argv) tried: one argument short, exact, one too many
ArgCounts == { 5, 6, 7 }

\* font paths tried: "f.otf", missing, and the existing files "f.tTf",
\* "f.png"
FontFiles ==
  { [isfile |-> FALSE, name |-> << 102, 46, 111, 116, 102 >>],
    [isfile |-> TRUE, name |-> << 102, 46, 116, 84, 102 >>],
    [isfile |-> TRUE, name |-> << 102, 46, 112, 110, 103 >>] }

\* whether str.lower() of the code point is the one-character string of the
\* lower-case ASCII letter or full stop l: "." comes from "." only, and "o",
\* "t", "f" from themselves and their ASCII capitals only (no code point
\* above ASCII lower-cases to a string containing one of the four)
LowersTo(c, l) == c = l \/ (l \in 97..122 /\ c = l - 32)

\* name.lower().endswith(suffix), for a suffix of "." and ASCII letters
LowerEndsWith(name, suffix) ==
  /\ Len(name) >= Len(suffix)
  /\ \A k \in 1..Len(suffix) :
       LowersTo(name[Len(name) - Len(suffix) + k], suffix[k])

\* font_file.lower().endswith(('.otf', '.ttf'))
HasFontSuffix(name) ==
  \/ LowerEndsWith(name, << 46, 111, 116, 102 >>)
  \/ LowerEndsWith(name, << 46, 116, 116, 102 >>)

\* characters of the batches tried: "A" and the euro sign
Alphabet == { 65, 8364 }

RECURSIVE SeqsUpTo(_, _)
\* all sequences over S of length 0..n
SeqsUpTo(S, n) ==
  IF n = 0 THEN { << >> }
  ELSE LET shorter == SeqsUpTo(S, n - 1)
       IN shorter \cup { Append(q, x) : q \in { r \in shorter : Len(r) = n - 1 }, x \in S }

\* output_path / f"{filename}.png", as the name inside the output directory
FileName(c) == sanitize_filename(c) \o << 46, 112, 110, 103 >>

\* what sys.argv[3] names before the run
OutputDirs == { "directory", "absent", "file", "unwritable" }

\* the content of an existing output directory before the run: nothing, or
\* an older "A.png"
InitialDirs ==
  { {}, { [name |-> FileName(65), writer |-> 0, complete |-> TRUE] } }

\* whether Path(output_dir).mkdir(parents=True, exist_ok=True) raises: the
\* path is a regular file (FileExistsError) or cannot be created (OSError)
MkdirRaises(dir) == dir \in { "file", "unwritable" }

VARIABLES
  argc,          \* len(sys.argv)
  font_file,     \* sys.argv[1]
  characters,    \* sys.argv[2]
  width_arg,     \* sys.argv[4]
  height_arg,    \* sys.argv[5]
  output_dir,    \* what sys.argv[3] names before the run
  initFiles,     \* the content of the output directory before the run
  pc,            \* where main() or generate_character_sprite() stands
  exit_code,     \* the process's exit status; -1 while it runs
  stdout,        \* what was printed, in order
  stderr,        \* what was printed with file=sys.stderr, in order
  width,         \* main's width
  height,        \* main's height
  i,             \* characters processed so far by the for loop
  success_count,
  fail_count,
  dir_exists,    \* the output directory exists
  files,         \* the output directory: name, writing iteration, completeness
  calls,         \* the characters generate_character_sprite was called with
  returns,       \* what each call returned, in order
  envFault,      \* the library raised for a reason other than a font size < 1
  character,     \* generate_character_sprite's locals, reset when it returns
  output_path,
  font_size,
  bbox,
  text_width,
  text_height,
  origin,        \* (x, y) of draw.text
  loaded,        \* the sizes ImageFont.truetype was called with, this call
  measured,      \* <<size, whether the box measured at it fits>>, this call
  decrements,    \* times the loop body ran, this call
  sc1, sc2,      \* the sanitizer's inputs (SpecSanitize)
  sn1, sn2       \* and its results; << >> before the call

request ==
  << argc, font_file, characters, width_arg, height_arg, output_dir, initFiles >>
mainVars ==
  << pc, exit_code, stdout, stderr, width, height, i, success_count,
     fail_count, dir_exists, files, calls, returns, envFault >>
locals ==
  << character, output_path, font_size, bbox, text_width, text_height, origin,
     loaded, measured, decrements >>
sanVars == << sc1, sc2, sn1, sn2 >>
vars == << request, mainVars, locals, sanVars >>

----------------------------------------------------------------------------
(* Pure parts of generate_character_sprite and main. *)

\* int(height * 0.8); the product is never below 4*height/5 in binary
\* floating point, so truncation gives the integer quotient
InitialFontSize(h) == (h * 8) \div 10

\* the loop test with "and" between the two overflows: a mutant of TooLarge
TooLargeBoth(tw, th, w, h) == tw * 10 > w * 9 /\ th * 10 > h * 9

\* text_width > width * 0.9 or text_height > height * 0.9
TooLarge(tw, th, w, h) == tw * 10 > w * 9 \/ th * 10 > h * 9

\* boxes textbbox may return for a w x h canvas: an empty box away from the
\* origin, the largest box that fits, one pixel too wide, one pixel too tall
Boxes(w, h) ==
  LET fw == (w * 9) \div 10
      fh == (h * 9) \div 10
  IN { << 1, -1, 1, -1 >>, << 0, 0, fw, fh >>,
       << 0, 0, fw + 1, fh >>, << 0, 1, fw, fh + 2 >> }

\* (x, y) of lines 59-60; // is floor division, as \div is for a divisor of 2
DrawOrigin(w, h, box) ==
  << (w - (box[3] - box[1])) \div 2 - box[1],
     (h - (box[4] - box[2])) \div 2 - box[2] >>

\* where an Exception raised in the try block lands: line 69 catches all
Handler(stage) == "except"

\* a write that never replaces: a mutant of WriteFile
WriteFileKeep(fs, name, writer, complete) ==
  fs \cup { [name |-> name, writer |-> writer, complete |-> complete] }

\* open(name, "w+b") and write: the file of that name is replaced
WriteFile(fs, name, writer, complete) ==
  { f \in fs : f.name # name }
    \cup { [name |-> name, writer |-> writer, complete |-> complete] }

\* 0 if fail_count == 0 else 1
ExitCode(fc) == IF fc = 0 THEN 0 ELSE 1

\* "and" for "or" in the dimension check: a mutant of DimsRejected
DimsRejectedBoth(w, h) == w <= 0 /\ h <= 0

\* width <= 0 or height <= 0
DimsRejected(w, h) == w <= 0 \/ h <= 0

----------------------------------------------------------------------------
(* Initial states. *)

NoLocals ==
  /\ character = 0
  /\ output_path = << >>
  /\ font_size = 0
  /\ bbox = << 0, 0, 0, 0 >>
  /\ text_width = 0
  /\ text_height = 0
  /\ origin = << 0, 0 >>
  /\ loaded = << >>
  /\ measured = {}
  /\ decrements = 0

MainStart ==
  /\ pc = "start"
  /\ exit_code = -1
  /\ stdout = << >>
  /\ stderr = << >>
  /\ width = 0
  /\ height = 0
  /\ i = 0
  /\ success_count = 0
  /\ fail_count = 0
  /\ dir_exists = (output_dir = "directory")
  /\ files = initFiles
  /\ calls = << >>
  /\ returns = << >>
  /\ envFault = FALSE

Init ==
  /\ argc \in ArgCounts
  /\ font_file \in FontFiles
  /\ characters \in SeqsUpTo(Alphabet, MaxChars)
  /\ width_arg \in DimArgs(MaxWidth)
  /\ height_arg \in DimArgs(MaxHeight)
  /\ output_dir \in OutputDirs
  /\ initFiles \in (IF output_dir = "directory" THEN InitialDirs ELSE { {} })
  /\ MainStart
  /\ NoLocals
  /\ sc1 = 0 /\ sc2 = 0 /\ sn1 = << >> /\ sn2 = << >>

----------------------------------------------------------------------------
(* main: argument parsing and validation, lines 136-182. *)

Exit(code) == pc' = "exited" /\ exit_code' = code

\* the variables a rejection leaves alone
RejectFrame ==
  UNCHANGED << request, dir_exists, i, success_count, fail_count, files,
               calls, returns, envFault, locals, sanVars >>

\* lines 147-148 when both return
ParseDims ==
  /\ width' = IntOf(width_arg)
  /\ height' = IntOf(height_arg)

\* lines 136-140
RejectArgc ==
  /\ pc = "start"
  /\ argc # 6
  /\ stdout' = stdout \o << << "usage" >>, << "example" >> >>
  /\ Exit(1)
  /\ UNCHANGED << stderr, width, height >>
  /\ RejectFrame

\* lines 146-151: int() raises for the width, or returns for it and raises
\* for the height
RejectParse ==
  /\ pc = "start"
  /\ argc = 6
  /\ ~(IsIntLiteral(width_arg) /\ IsIntLiteral(height_arg))
  /\ width' = (IF IsIntLiteral(width_arg) THEN IntOf(width_arg) ELSE width)
  /\ stderr' = Append(stderr, << "not integers" >>)
  /\ Exit(1)
  /\ UNCHANGED << stdout, height >>
  /\ RejectFrame

Parsed == argc = 6 /\ IsIntLiteral(width_arg) /\ IsIntLiteral(height_arg)

\* lines 154-156
RejectFont ==
  /\ pc = "start"
  /\ Parsed
  /\ ~font_file.isfile
  /\ ParseDims
  /\ stderr' = Append(stderr, << "font not found" >>)
  /\ Exit(1)
  /\ UNCHANGED stdout
  /\ RejectFrame

\* lines 158-159: what the suffix check adds to stderr
SuffixWarning ==
  IF HasFontSuffix(font_file.name) THEN << >>
  ELSE << << "warning: suffix" >> >>

\* lines 161-163
RejectDims ==
  /\ pc = "start"
  /\ Parsed
  /\ font_file.isfile
  /\ DimsRejected(IntOf(width_arg), IntOf(height_arg))
  /\ ParseDims
  /\ stderr' = stderr \o SuffixWarning \o << << "not positive" >> >>
  /\ Exit(1)
  /\ UNCHANGED stdout
  /\ RejectFrame

\* lines 165-167
RejectEmpty ==
  /\ pc = "start"
  /\ Parsed
  /\ font_file.isfile
  /\ ~DimsRejected(IntOf(width_arg), IntOf(height_arg))
  /\ Len(characters) = 0
  /\ ParseDims
  /\ stderr' = stderr \o SuffixWarning \o << << "no characters" >> >>
  /\ Exit(1)
  /\ UNCHANGED stdout
  /\ RejectFrame

\* the request passes every check of lines 136-167
Validated ==
  /\ Parsed
  /\ font_file.isfile
  /\ ~DimsRejected(IntOf(width_arg), IntOf(height_arg))
  /\ Len(characters) # 0

\* lines 142-148, 158-159, 169-171: the request passes validation and mkdir
\* raises; nothing catches it, the interpreter prints the traceback to
\* stderr and the process ends with status 1
MkdirRaise ==
  /\ pc = "start"
  /\ Validated
  /\ MkdirRaises(output_dir)
  /\ ParseDims
  /\ stderr' = stderr \o SuffixWarning \o << << "traceback" >> >>
  /\ Exit(1)
  /\ UNCHANGED stdout
  /\ RejectFrame

\* lines 142-148, 158-159, 169-186: the request is accepted, the output
\* directory made if it is not there, the banner printed
Accept ==
  /\ pc = "start"
  /\ Validated
  /\ ~MkdirRaises(output_dir)
  /\ ParseDims
  /\ dir_exists' = TRUE
  /\ stderr' = stderr \o SuffixWarning
  /\ stdout' = Append(stdout, << "banner", Len(characters), width', height' >>)
  /\ success_count' = 0
  /\ fail_count' = 0
  /\ pc' = "loop"
  /\ UNCHANGED << request, exit_code, i, files, calls, returns, envFault,
                  locals, sanVars >>

----------------------------------------------------------------------------
(* main's for loop and generate_character_sprite, lines 188-201, 35-71. *)

\* the callee's locals die when it returns
ResetLocals ==
  /\ character' = 0
  /\ output_path' = << >>
  /\ font_size' = 0
  /\ bbox' = << 0, 0, 0, 0 >>
  /\ text_width' = 0
  /\ text_height' = 0
  /\ origin' = << 0, 0 >>
  /\ loaded' = << >>
  /\ measured' = {}
  /\ decrements' = 0

\* the variables no step inside generate_character_sprite changes
InsideFrame ==
  UNCHANGED << request, dir_exists, exit_code, stdout, stderr, width, height, i,
               success_count, fail_count, calls, returns, sanVars >>

\* lines 188-196: the next character, its file name, the progress line, the call
Call ==
  /\ pc = "loop"
  /\ i < Len(characters)
  /\ character' = characters[i + 1]
  /\ output_path' = FileName(characters[i + 1])
  /\ stdout' = Append(stdout, << "generating", characters[i + 1],
                                 FileName(characters[i + 1]) >>)
  /\ calls' = Append(calls, characters[i + 1])
  /\ UNCHANGED << request, dir_exists, exit_code, stderr, width, height, i, success_count,
                  fail_count, files, returns, sanVars, bbox, text_width,
                  text_height, origin, loaded, measured, decrements >>

\* lines 37-42: the canvas is allocated and the first size chosen
BeginChar ==
  /\ Call
  /\ font_size' = InitialFontSize(height)
  /\ pc' = "load"
  /\ UNCHANGED envFault

\* line 37 raises (a canvas too large for memory)
BeginCharRaise ==
  /\ Call
  /\ pc' = Handler("new")
  /\ envFault' = TRUE
  /\ UNCHANGED font_size

\* lines 43 and 53: ImageFont.truetype(font_path, font_size) returns
LoadFont ==
  /\ pc = "load"
  /\ loaded' = Append(loaded, font_size)
  /\ pc' = "measure"
  /\ InsideFrame
  /\ UNCHANGED << files, envFault, character, output_path, font_size, bbox,
                  text_width, text_height, origin, measured, decrements >>

\* lines 43 and 53: ImageFont.truetype raises; a font that loads at every
\* size from 1 up may still be refused a size below 1
LoadFontRaise ==
  /\ pc = "load"
  /\ loaded' = Append(loaded, font_size)
  /\ pc' = Handler("load")
  /\ envFault' = (envFault \/ font_size >= 1)
  /\ InsideFrame
  /\ UNCHANGED << files, character, output_path, font_size, bbox, text_width,
                  text_height, origin, measured, decrements >>

\* lines 46-48 and 54-56: textbbox returns a box
Measure ==
  /\ pc = "measure"
  /\ \E box \in Boxes(width, height) :
       /\ bbox' = box
       /\ text_width' = box[3] - box[1]
       /\ text_height' = box[4] - box[2]
       /\ measured' = measured \cup { << font_size, box[3] - box[1], box[4] - box[2] >> }
  /\ pc' = "while"
  /\ InsideFrame
  /\ UNCHANGED << files, envFault, character, output_path, font_size, origin,
                  loaded, decrements >>

\* lines 46 and 54: textbbox raises
MeasureRaise ==
  /\ pc = "measure"
  /\ pc' = Handler("measure")
  /\ envFault' = TRUE
  /\ InsideFrame
  /\ UNCHANGED << files, character, output_path, font_size, bbox, text_width,
                  text_height, origin, loaded, measured, decrements >>

\* lines 51-52: the loop test holds, the size goes down by one
Shrink ==
  /\ pc = "while"
  /\ TooLarge(text_width, text_height, width, height) /\ font_size > 1
  /\ font_size' = font_size - 1
  /\ decrements' = decrements + 1
  /\ pc' = "load"
  /\ InsideFrame
  /\ UNCHANGED << files, envFault, character, output_path, bbox, text_width,
                  text_height, origin, loaded, measured >>

\* line 51 fails, lines 59-63: the glyph is centred and drawn
Draw ==
  /\ pc = "while"
  /\ ~(TooLarge(text_width, text_height, width, height) /\ font_size > 1)
  /\ origin' = DrawOrigin(width, height, bbox)
  /\ pc' = "save"
  /\ InsideFrame
  /\ UNCHANGED << files, envFault, character, output_path, font_size, bbox,
                  text_width, text_height, loaded, measured, decrements >>

\* line 51 fails, lines 59-63: the glyph is centred and draw.text raises
DrawRaise ==
  /\ pc = "while"
  /\ ~(TooLarge(text_width, text_height, width, height) /\ font_size > 1)
  /\ origin' = DrawOrigin(width, height, bbox)
  /\ pc' = Handler("draw")
  /\ envFault' = TRUE
  /\ InsideFrame
  /\ UNCHANGED << files, character, output_path, font_size, bbox, text_width,
                  text_height, loaded, measured, decrements >>

\* lines 66-67, 196-198: the file is written, True is returned and counted
Save ==
  /\ pc = "save"
  /\ files' = WriteFile(files, output_path, i + 1, TRUE)
  /\ returns' = Append(returns, TRUE)
  /\ stdout' = Append(stdout, << "ok" >>)
  /\ success_count' = success_count + 1
  /\ i' = i + 1
  /\ pc' = "loop"
  /\ ResetLocals
  /\ UNCHANGED << request, dir_exists, exit_code, stderr, width, height, fail_count, calls,
                  envFault, sanVars >>

\* line 66: image.save raises, before the file is opened or with the file
\* left incomplete
SaveRaise ==
  /\ pc = "save"
  /\ files' \in { files, WriteFile(files, output_path, i + 1, FALSE) }
  /\ pc' = Handler("save")
  /\ envFault' = TRUE
  /\ InsideFrame
  /\ UNCHANGED << character, output_path, font_size, bbox, text_width,
                  text_height, origin, loaded, measured, decrements >>

\* lines 69-71, 196, 199-201: the error is reported, False returned and counted
Except ==
  /\ pc = "except"
  /\ stderr' = Append(stderr, << "error generating", character >>)
  /\ returns' = Append(returns, FALSE)
  /\ stdout' = Append(stdout, << "failed" >>)
  /\ fail_count' = fail_count + 1
  /\ i' = i + 1
  /\ pc' = "loop"
  /\ ResetLocals
  /\ UNCHANGED << request, dir_exists, exit_code, width, height, success_count, files,
                  calls, envFault, sanVars >>

\* lines 203-214: the summary and the exit status
Summary ==
  /\ pc = "loop"
  /\ i = Len(characters)
  /\ stdout' = Append(stdout, << "summary", success_count, fail_count,
                                 Len(characters) >>)
  /\ Exit(ExitCode(fail_count))
  /\ UNCHANGED << request, dir_exists, stderr, width, height, i, success_count, fail_count,
                  files, calls, returns, envFault, locals, sanVars >>

Next ==
  \/ RejectArgc
  \/ RejectParse
  \/ RejectFont
  \/ RejectDims
  \/ RejectEmpty
  \/ MkdirRaise
  \/ Accept
  \/ BeginChar
  \/ BeginCharRaise
  \/ LoadFont
  \/ LoadFontRaise
  \/ Measure
  \/ MeasureRaise
  \/ Shrink
  \/ Draw
  \/ DrawRaise
  \/ Save
  \/ SaveRaise
  \/ Except
  \/ Summary

Spec == Init /\ [][Next]_vars

----------------------------------------------------------------------------
(* The sanitizer alone, on every pair of the code points tried. *)

Chars == (0..MaxLowCode) \cup Samples

SanInit ==
  /\ sc1 \in Chars
  /\ sc2 \in Chars
  /\ sn1 = << >>
  /\ sn2 = << >>
  /\ argc = 6
  /\ font_file = [isfile |-> TRUE, name |-> << 102, 46, 111, 116, 102 >>]
  /\ characters = << >>
  /\ width_arg = << 49 >>
  /\ height_arg = << 49 >>
  /\ output_dir = "directory"
  /\ initFiles = {}
  /\ MainStart
  /\ NoLocals

\* filename = sanitize_filename(char), line 190, for the first character
SanitizeFirst ==
  /\ sn1 = << >>
  /\ sn1' = sanitize_filename(sc1)
  /\ UNCHANGED << sc1, sc2, sn2, request, mainVars, locals >>

\* and for the second
SanitizeSecond ==
  /\ sn2 = << >>
  /\ sn2' = sanitize_filename(sc2)
  /\ UNCHANGED << sc1, sc2, sn1, request, mainVars, locals >>

SanNext == SanitizeFirst \/ SanitizeSecond

SpecSanitize == SanInit /\ [][SanNext]_vars

----------------------------------------------------------------------------
(* Vocabulary of the properties. *)

\* the request has one of the fatal startup errors of main()
FatalRequest ==
  \/ argc - 1 # 5
  \/ ~IsIntLiteral(width_arg)
  \/ ~IsIntLiteral(height_arg)
  \/ ~font_file.isfile
  \/ IntOf(width_arg) <= 0
  \/ IntOf(height_arg) <= 0
  \/ characters = << >>

\* the process has ended after a request that passed validation
Ended == pc = "exited" /\ ~FatalRequest

\* the process has ended after a request that passed validation and whose
\* output directory was there or was made
Finished == Ended /\ dir_exists

AllDistinct(q) == \A j, k \in 1..Len(q) : j # k => q[j] # q[k]

\* the box fits the 90% margins of the canvas
FitsBox(tw, th) == 10 * tw <= 9 * width /\ 10 * th <= 9 * height

IsUpperHex(code) == code \in 48..57 \/ code \in 65..70

RECURSIVE HexValue(_)
\* the number an upper-case hexadecimal numeral denotes
HexValue(ds) ==
  IF Len(ds) = 0 THEN 0
  ELSE 16 * HexValue(SubSeq(ds, 1, Len(ds) - 1))
         + (IF ds[Len(ds)] <= 57 THEN ds[Len(ds)] - 48 ELSE ds[Len(ds)] - 55)

\* the last line printed is the summary block with these counts
SummaryIs(ok, failed, total) ==
  /\ Len(stdout) > 0
  /\ stdout[Len(stdout)] = << "summary", ok, failed, total >>

----------------------------------------------------------------------------
(* C1: a request with a fatal startup error ends the process with exit     *)
(* code 1, and at no moment of such a run has generate_character_sprite    *)
(* been called, a font been loaded or a file of the output directory been  *)
(* written.                                                                *)
C1_FatalExitsBeforeRendering ==
  FatalRequest =>
    /\ pc \in { "start", "exited" }
    /\ pc = "exited" => exit_code = 1
    /\ calls = << >>
    /\ loaded = << >>
    /\ files = initFiles

\* a request with width 0 and nothing else wrong has been rejected
C1_Witness ==
  /\ pc = "exited"
  /\ exit_code = 1
  /\ argc = 6
  /\ font_file.isfile
  /\ width_arg = << 48 >>
  /\ IsIntLiteral(height_arg) /\ IntOf(height_arg) > 0
  /\ Len(characters) = 2
  /\ calls = << >>

\* no exception leaves generate_character_sprite, and the calls made so far
\* are the characters in input order, one per position
CallsInOrder ==
  /\ pc # "crashed"
  /\ Len(calls) <= Len(characters)
  /\ calls = SubSeq(characters, 1, Len(calls))
  /\ Len(calls) = (IF pc \in { "start", "loop", "exited" } THEN i ELSE i + 1)
  /\ Len(returns) = i

(* C2: once validation has passed no failure stops the batch: no exception *)
(* leaves generate_character_sprite, the calls are the characters in input *)
(* order, one per position, and a run that has ended has made one call per *)
(* position whatever succeeded or failed.                                  *)
C2_BatchNeverStops ==
  /\ CallsInOrder
  /\ Ended => calls = characters

\* C2 for the runs whose output directory was there or was made
C2_BatchNeverStopsInDirectory ==
  /\ CallsInOrder
  /\ Finished => calls = characters

\* a two-character batch whose first character failed and second succeeded
C2_Witness ==
  /\ Finished
  /\ Len(characters) = 2
  /\ calls = characters
  /\ returns = << FALSE, TRUE >>

\* every character was attempted, and the exit code is 0 exactly when every
\* call returned success, 1 otherwise
ExitCodeFromReturns ==
  /\ i = Len(characters)
  /\ Len(returns) = Len(characters)
  /\ exit_code = 0 <=> (\A k \in 1..Len(returns) : returns[k])
  /\ (\E k \in 1..Len(returns) : ~returns[k]) => exit_code = 1
  /\ fail_count = Cardinality({ k \in 1..Len(returns) : ~returns[k] })

(* C3: the exit code is decided only when the process ends; for a request  *)
(* that passed validation that is after every character was attempted, and *)
(* the code is 0 exactly when every call returned success, 1 otherwise.    *)
C3_ExitCodeReflectsFailures ==
  /\ pc # "exited" => exit_code = -1
  /\ Ended => ExitCodeFromReturns

\* C3 for the runs whose output directory was there or was made
C3_ExitCodeReflectsFailuresInDirectory ==
  /\ pc # "exited" => exit_code = -1
  /\ Finished => ExitCodeFromReturns

\* a run that ended with exit code 1 because its last character failed
C3_Witness ==
  /\ Finished
  /\ returns = << TRUE, FALSE >>
  /\ exit_code = 1

(* C4: for N distinct characters, a font and an output directory with      *)
(* nothing wrong (the library raised for no reason other than the font     *)
(* size it was asked for) and an initially empty directory, a finished run *)
(* leaves exactly N files, reports Successful N, Failed 0, Total N and     *)
(* exits with 0; and the two counts always add up to the characters        *)
(* processed, at the summary to the reported total.                        *)
C4_DistinctBatchWritesAll ==
  /\ pc \in { "loop", "exited" } /\ ~FatalRequest =>
       success_count + fail_count = i
  /\ Finished => SummaryIs(success_count, fail_count, Len(characters))
  /\ Finished /\ AllDistinct(characters) /\ ~envFault /\ initFiles = {} =>
       /\ Cardinality(files) = Len(characters)
       /\ SummaryIs(Len(characters), 0, Len(characters))
       /\ exit_code = 0

\* C4 restricted to heights from 2 up, where the first font size is positive
C4_FromHeightTwo == height = 1 \/ C4_DistinctBatchWritesAll

\* the counting part of C4 alone
C4_CountsAddUp ==
  /\ pc \in { "loop", "exited" } /\ ~FatalRequest =>
       success_count + fail_count = i
  /\ Finished => SummaryIs(success_count, fail_count, Len(characters))

\* the same character twice, into an initially empty directory
RepeatedPair ==
  /\ Len(characters) = 2
  /\ characters[1] = characters[2]
  /\ initFiles = {}

(* C5 as stated: the same character twice into an empty directory leaves   *)
(* exactly one file, with Total 2, Successful + Failed = 2 and 2 successes *)
(* when neither attempt failed.                                            *)
C5_ExactlyOneFile ==
  Finished /\ RepeatedPair =>
    /\ Cardinality(files) = 1
    /\ SummaryIs(success_count, fail_count, 2)
    /\ success_count + fail_count = 2
    /\ (\A k \in 1..2 : returns[k]) => success_count = 2

(* C5, amended: the same character twice into an empty directory never     *)
(* leaves more than one file; it leaves exactly one when at least one      *)
(* attempt succeeded, and when both did the file is the second attempt's;  *)
(* the summary reports Total 2, Successful + Failed = 2, and 2 successes   *)
(* when neither attempt failed.                                            *)
C5_AtMostOneFile ==
  /\ ~FatalRequest /\ RepeatedPair => Cardinality(files) <= 1
  /\ Finished /\ RepeatedPair =>
       /\ (\E k \in 1..2 : returns[k]) => Cardinality(files) = 1
       /\ (\A k \in 1..2 : returns[k]) =>
            /\ files = { [name |-> FileName(characters[1]), writer |-> 2,
                          complete |-> TRUE] }
            /\ success_count = 2
       /\ SummaryIs(success_count, fail_count, 2)
       /\ success_count + fail_count = 2

\* both attempts on a repeated character succeeded and one file is left
C5_Witness ==
  /\ Finished
  /\ RepeatedPair
  /\ returns = << TRUE, TRUE >>
  /\ Cardinality(files) = 1
  /\ SummaryIs(2, 0, 2)

(* C6 as stated: a key of the table gives its token, an alphanumeric       *)
(* character itself, and any other character "U" and exactly four          *)
(* upper-case hexadecimal digits of its code point, five characters in     *)
(* all.                                                                    *)
C6_FourHexDigits ==
  sn1 # << >> =>
    IF sc1 \in DOMAIN special_chars THEN sn1 = special_chars[sc1]
    ELSE IF isalnum(sc1) THEN sn1 = << sc1 >>
    ELSE /\ Len(sn1) = 5
         /\ sn1[1] = 85
         /\ \A k \in 2..5 : IsUpperHex(sn1[k])
         /\ HexValue(Tail(sn1)) = sc1

(* C6, amended: sanitize_filename is total; a key of the table gives its   *)
(* token, an alphanumeric character itself, and any other character "U"    *)
(* and the upper-case hexadecimal code point zero-padded to at least four  *)
(* digits: five characters up to U+FFFF, and one per further digit above.  *)
C6_AtLeastFourHexDigits ==
  sn1 # << >> =>
    IF sc1 \in DOMAIN special_chars THEN sn1 = special_chars[sc1]
    ELSE IF isalnum(sc1) THEN sn1 = << sc1 >>
    ELSE /\ Len(sn1) >= 5
         /\ sn1[1] = 85
         /\ \A k \in 2..Len(sn1) : IsUpperHex(sn1[k])
         /\ HexValue(Tail(sn1)) = sc1
         /\ Len(sn1) > 5 => sn1[2] # 48
         /\ Len(sn1) = 5 <=> sc1 <= 65535
         /\ sc1 = 8364 => sn1 = << 85, 50, 48, 65, 67 >>

\* the emoji U+1F600 was given the six-character name "U1F600"
C6_Witness ==
  /\ sc1 = 128512
  /\ sn1 = << 85, 49, 70, 54, 48, 48 >>

(* C7: every rejection by input validation writes its diagnostic to        *)
(* standard error and nothing to standard output.                          *)
C7_RejectionsOnStderr ==
  FatalRequest /\ pc = "exited" => stdout = << >> /\ stderr # << >>

(* C8: every font size at which generate_character_sprite loads the font,  *)
(* the initial candidate and the size drawn with included, is at least 1.  *)
C8_SizeFloor ==
  /\ \A k \in 1..Len(loaded) : loaded[k] >= 1
  /\ pc \in { "measure", "while", "save" } => font_size >= 1

(* C9: when the initial size s0 = floor(0.8 * height) is at least 1, the   *)
(* loop runs at most s0 - 1 times, every size above the current one was    *)
(* measured and did not fit, and the size drawn with is the first, going   *)
(* down from s0, whose box fits, or 1 when none of 2..s0 fits; drawing and *)
(* saving go on even when the box at size 1 does not fit.                  *)
C9_ShrinkToFit ==
  LET s0 == InitialFontSize(height)
  IN pc \in { "load", "measure", "while", "save" } /\ s0 >= 1 =>
       /\ font_size \in 1..s0
       /\ decrements = s0 - font_size
       /\ decrements <= s0 - 1
       /\ \A s \in (font_size + 1)..s0 :
            \E m \in measured : m[1] = s /\ ~FitsBox(m[2], m[3])
       /\ pc = "save" =>
            /\ << font_size, text_width, text_height >> \in measured
            /\ FitsBox(text_width, text_height) \/ font_size = 1
            /\ ENABLED Save

\* the loop went from 3 down to 1, the box still does not fit, and the
\* glyph has been drawn and is about to be saved
C9_Witness ==
  /\ pc = "save"
  /\ InitialFontSize(height) >= 3
  /\ font_size = 1
  /\ decrements = InitialFontSize(height) - 1
  /\ ~FitsBox(text_width, text_height)

(* C10: sanitize_filename is injective: two different characters never     *)
(* get the same name.                                                      *)
C10_Injective ==
  sn1 # << >> /\ sn2 # << >> /\ sc1 # sc2 => sn1 # sn2

\* U+FFFF and U+10FFFF, whose last four digits agree, got "UFFFF" and
\* "U10FFFF"
C10_Witness ==
  /\ sc1 = 65535
  /\ sc2 = 1114111
  /\ sn1 = << 85, 70, 70, 70, 70 >>
  /\ sn2 = << 85, 49, 48, 70, 70, 70, 70 >>

====
